---- MODULE Spec2Model ----
(***************************************************************************)
(* Model of the PDF question-answering pipeline of rag_system.py and its   *)
(* front ends (interactive_demo.py, streamlit_app.py).                     *)
(*                                                                         *)
(* Texts are sequences of one-character strings.  The persisted vector     *)
(* store ("./chroma_db") is shared by every run of every front end.        *)
(***************************************************************************)
EXTENDS Integers, Sequences, FiniteSets, TLC

(***************************************************************************)
(* Bounds of the model.                                                    *)
(***************************************************************************)
MaxLen == 5          \* longest page text drawn for the chunker

(***************************************************************************)
(* Text helpers.                                                           *)
(***************************************************************************)
Whitespace == {" ", "\n"}

Chars == {"a", "b", " ", "\n"}

\* str.strip(): drop leading and trailing whitespace
RECURSIVE LStrip(_)
LStrip(t) ==
    IF t # <<>> /\ Head(t) \in Whitespace THEN LStrip(Tail(t)) ELSE t

RECURSIVE RStrip(_)
RStrip(t) ==
    IF t # <<>> /\ t[Len(t)] \in Whitespace
    THEN RStrip(SubSeq(t, 1, Len(t) - 1))
    ELSE t

Strip(t) == RStrip(LStrip(t))

RECURSIVE Concat(_)
Concat(ss) == IF ss = <<>> THEN <<>> ELSE Head(ss) \o Concat(Tail(ss))

\* re.search(re.escape(sep), text) for a non-empty literal sep
Contains(text, sep) ==
    \E i \in 1..(Len(text) - Len(sep) + 1) : SubSeq(text, i, i + Len(sep) - 1) = sep

(***************************************************************************)
(* RecursiveCharacterTextSplitter(chunk_size, chunk_overlap,               *)
(* length_function=len) with its default separators, keep_separator=True   *)
(* and strip_whitespace=True, as constructed in create_vectorstore.        *)
(***************************************************************************)
Separators == << <<"\n", "\n">>, <<"\n">>, <<" ">>, <<>> >>

\* re.split(f"({sep})", text): the pieces between the non-overlapping matches,
\* every piece after the first one carrying the separator that precedes it
RECURSIVE ReSplit(_, _, _, _)
ReSplit(text, sep, i, cur) ==
    IF i > Len(text) THEN <<cur>>
    ELSE IF i + Len(sep) - 1 <= Len(text) /\ SubSeq(text, i, i + Len(sep) - 1) = sep
         THEN <<cur>> \o ReSplit(text, sep, i + Len(sep), sep)
         ELSE ReSplit(text, sep, i + 1, Append(cur, text[i]))

SplitTextWithRegex(text, sep) ==
    LET splits == IF sep = <<>>
                  THEN [i \in 1..Len(text) |-> <<text[i]>>]
                  ELSE ReSplit(text, sep, 1, <<>>)
    IN  SelectSeq(splits, LAMBDA s : s # <<>>)

\* _join_docs: join, strip, and drop the result when nothing is left
JoinDocs(docs, separator) ==
    LET text == Strip(Concat(docs))
    IN  IF text = <<>> THEN <<>> ELSE <<text>>

\* the "keep on popping" loop of _merge_splits
RECURSIVE PopWhile(_, _, _, _, _)
PopWhile(current_doc, total, len, size, overlap) ==
    IF total > overlap \/ (total + len > size /\ total > 0)
    THEN PopWhile(Tail(current_doc), total - Len(Head(current_doc)), len, size, overlap)
    ELSE [current_doc |-> current_doc, total |-> total]

RECURSIVE MergeLoop(_, _, _, _, _, _)
MergeLoop(splits, docs, current_doc, total, size, overlap) ==
    IF splits = <<>> THEN docs \o JoinDocs(current_doc, <<>>)
    ELSE LET d    == Head(splits)
             len  == Len(d)
             over == total + len > size
             flushed == IF over /\ current_doc # <<>>
                        THEN docs \o JoinDocs(current_doc, <<>>)
                        ELSE docs
             kept == IF over /\ current_doc # <<>>
                     THEN PopWhile(current_doc, total, len, size, overlap)
                     ELSE [current_doc |-> current_doc, total |-> total]
         IN  MergeLoop(Tail(splits), flushed, Append(kept.current_doc, d),
                       kept.total + len, size, overlap)

\* _merge_splits that never starts a new chunk
MergeSplitsUnbounded(splits, size, overlap) == JoinDocs(splits, <<>>)

MergeSplits(splits, size, overlap) == MergeLoop(splits, <<>>, <<>>, 0, size, overlap)

\* index of the separator _split_text chooses: the first one that is "" or occurs
RECURSIVE PickSeparator(_, _, _)
PickSeparator(text, separators, i) ==
    IF i >= Len(separators) THEN Len(separators)
    ELSE IF separators[i] = <<>> \/ Contains(text, separators[i]) THEN i
    ELSE PickSeparator(text, separators, i + 1)

RECURSIVE SplitTextRec(_, _, _, _)
RECURSIVE SplitLoop(_, _, _, _, _, _)
SplitLoop(splits, good, final, new_separators, size, overlap) ==
    IF splits = <<>>
    THEN IF good # <<>> THEN final \o MergeSplits(good, size, overlap) ELSE final
    ELSE LET s == Head(splits)
         IN  IF Len(s) < size
             THEN SplitLoop(Tail(splits), Append(good, s), final,
                            new_separators, size, overlap)
             ELSE LET merged == IF good # <<>>
                                THEN final \o MergeSplits(good, size, overlap)
                                ELSE final
                      other  == IF new_separators = <<>>
                                THEN <<s>>
                                ELSE SplitTextRec(s, new_separators, size, overlap)
                  IN  SplitLoop(Tail(splits), <<>>, merged \o other,
                                new_separators, size, overlap)

SplitTextRec(text, separators, size, overlap) ==
    LET i == PickSeparator(text, separators, 1)
        separator == separators[i]
        new_separators == IF separator = <<>> THEN <<>>
                          ELSE SubSeq(separators, i + 1, Len(separators))
    IN  SplitLoop(SplitTextWithRegex(text, separator), <<>>, <<>>,
                  new_separators, size, overlap)

split_text(text, size, overlap) == SplitTextRec(text, Separators, size, overlap)

\* split_documents / create_documents: every page is split on its own and each
\* chunk keeps the metadata (page index) of the page it was cut from
RECURSIVE TagChunks(_, _)
TagChunks(chunks, page) ==
    IF chunks = <<>> THEN <<>>
    ELSE <<[page_content |-> Head(chunks), page |-> page]>> \o TagChunks(Tail(chunks), page)

RECURSIVE SplitPages(_, _, _, _)
SplitPages(pages, i, size, overlap) ==
    IF i > Len(pages) THEN <<>>
    ELSE TagChunks(split_text(pages[i].page_content, size, overlap), pages[i].page)
         \o SplitPages(pages, i + 1, size, overlap)

split_documents(documents, size, overlap) == SplitPages(documents, 1, size, overlap)

(***************************************************************************)
(* The configuration of the reference system.                              *)
(***************************************************************************)
chunk_size == 1000
chunk_overlap == 200

VARIABLES cSize, cOverlap, cPage, cChunks, cDone

cvars == <<cSize, cOverlap, cPage, cChunks, cDone>>

(***************************************************************************)
(* Embedding adapter and similarity search.  OpenAIEmbeddings() takes its  *)
(* model from the environment of the run; the vectors it returns are       *)
(* modelled by character counts, so that similar texts get close vectors.  *)
(***************************************************************************)
Adapters ==
    { [tag |-> "ada", dim |-> 2], [tag |-> "alt", dim |-> 2], [tag |-> "big", dim |-> 3] }

RECURSIVE Count(_, _)
Count(t, ch) ==
    IF t = <<>> THEN 0 ELSE (IF Head(t) = ch THEN 1 ELSE 0) + Count(Tail(t), ch)

embed(a, t) ==
    IF a.tag = "ada" THEN <<Count(t, "a"), Count(t, "b")>>
    ELSE IF a.tag = "alt" THEN <<Count(t, "b"), Count(t, "a")>>
    ELSE <<Count(t, "a"), Count(t, "b"), Len(t)>>

\* squared L2 distance, the default space of a Chroma collection: a smaller
\* distance is a higher similarity
RECURSIVE Distance(_, _)
Distance(v, w) ==
    IF v = <<>> THEN 0
    ELSE (Head(v) - Head(w)) * (Head(v) - Head(w)) + Distance(Tail(v), Tail(w))

Similarity(v, w) == 0 - Distance(v, w)

\* the position, among the positions S of vecs, of the vector closest to q;
\* the earliest inserted one among equally close ones
Nearest(vecs, S, q) ==
    CHOOSE i \in S :
        \A j \in S : \/ Distance(vecs[i], q) < Distance(vecs[j], q)
                     \/ (Distance(vecs[i], q) = Distance(vecs[j], q) /\ i <= j)

RECURSIVE Search(_, _, _, _)
Search(vecs, S, q, k) ==
    IF k = 0 \/ S = {} THEN <<>>
    ELSE LET i == Nearest(vecs, S, q)
         IN  <<i>> \o Search(vecs, S \ {i}, q, k - 1)

\* search_kwargs={"k": 4}
RetrieverK == 4

\* the retriever asking for one record more than configured
queryOneMore(vecs, q) == Search(vecs, DOMAIN vecs, q, RetrieverK + 1)

\* as_retriever(search_kwargs={"k": 4}): positions of the retrieved records
query(vecs, q) == Search(vecs, DOMAIN vecs, q, RetrieverK)

(***************************************************************************)
(* The runs of the front ends against the shared store.                    *)
(***************************************************************************)
NumProcs == 2        \* runs (processes or sessions) of the front ends

Procs == 1..NumProcs

\* done[p]: the steps run p has taken, with what Dispatch and open_client found
\* at the location (kept for the record; no step reads it)
\* "init", "query": python rag_system.py init | query;
\* "app": interactive_demo.py and the streamlit question handler
FrontEnds == {"init", "query", "app"}

Questions == { <<"a">>, <<"b", "b">> }

\* the *.pdf files of pdf_directory, each a sequence of page texts
Corpora == { <<>>, << << <<"a", "a", " ", "b">>, <<"b">> >> >> }

VARIABLES corpus, dirExists, store, lastBuilt,
          pc, frontEnd, adapter, sawDir, path, documents, splits,
          vectorstore, qa_chain, err, done, asks, lastAsk, pending

mvars == <<corpus, dirExists, store, lastBuilt,
           pc, frontEnd, adapter, sawDir, path, documents, splits,
           vectorstore, qa_chain, err, done, asks, lastAsk, pending>>

VARIABLES qVecs, qQuery, qResult, qDone

qvars == <<qVecs, qQuery, qResult, qDone>>

vars == <<mvars, cvars, qvars>>

\* lastAsk: the latest call of ask_question that has returned or raised, by
\* whom and with what outcome; asks flips at every return or raise;
\* pending[p]: the question of the call instance p is inside, <<>> when none
NoAsk == [by |-> 0, ready |-> FALSE, status |-> "none", sources |-> <<>>]

InitMain ==
    /\ corpus \in Corpora
    /\ dirExists = FALSE
    /\ store = <<>>
    /\ lastBuilt = <<>>
    /\ pc = [p \in Procs |-> "new"]
    /\ frontEnd = [p \in Procs |-> "none"]
    /\ adapter = [p \in Procs |-> [tag |-> "ada", dim |-> 2]]
    /\ sawDir = [p \in Procs |-> FALSE]
    /\ path = [p \in Procs |-> "none"]
    /\ documents = [p \in Procs |-> <<>>]
    /\ splits = [p \in Procs |-> <<>>]
    /\ vectorstore = [p \in Procs |-> FALSE]
    /\ qa_chain = [p \in Procs |-> FALSE]
    /\ err = [p \in Procs |-> "none"]
    /\ done = [p \in Procs |-> {}]
    /\ asks = 0
    /\ lastAsk = NoAsk
    /\ pending = [p \in Procs |-> <<>>]

\* rag = PDFRAGSystem(): vectorstore and qa_chain are None
Construct(p) ==
    /\ pc[p] = "new"
    /\ \A r \in Procs : r < p => pc[r] # "new"   \* runs are numbered as they start
    /\ \E f \in FrontEnds, a \in Adapters :
          /\ frontEnd' = [frontEnd EXCEPT ![p] = f]
          /\ adapter' = [adapter EXCEPT ![p] = a]
    /\ pc' = [pc EXCEPT ![p] = "constructed"]
    /\ UNCHANGED <<cvars, qvars, corpus, dirExists, store, lastBuilt, sawDir, path, documents,
                   splits, vectorstore, qa_chain, err, done, asks, lastAsk, pending>>

\* the applications with their os.path.exists test negated
ChoosePathInverted(f, exists) ==
    IF f = "init" THEN "BUILDING"
    ELSE IF f = "query" THEN "LOADING"
    ELSE IF exists THEN "BUILDING" ELSE "LOADING"

\* which way a front end initializes: "init" always builds, "query" always
\* loads, the applications test os.path.exists("./chroma_db")
ChoosePath(f, exists) ==
    IF f = "init" THEN "BUILDING"
    ELSE IF f = "query" THEN "LOADING"
    ELSE IF ~exists THEN "BUILDING" ELSE "LOADING"

Dispatch(p) ==
    /\ pc[p] = "constructed"
    /\ sawDir' = [sawDir EXCEPT ![p] = dirExists]
    /\ path' = [path EXCEPT ![p] = ChoosePath(frontEnd[p], dirExists)]
    /\ pc' = [pc EXCEPT ![p] = IF path'[p] = "BUILDING" THEN "load_pdfs" ELSE "open_client"]
    /\ done' = [done EXCEPT ![p] = @ \cup (IF store # <<>> THEN {"records_present"} ELSE {})]
    /\ UNCHANGED <<cvars, qvars, corpus, dirExists, store, lastBuilt, frontEnd, adapter, documents,
                   splits, vectorstore, qa_chain, err, asks, lastAsk, pending>>

\* the pages of all the files, in order, each with its page index
RECURSIVE PagesOf(_, _)
PagesOf(pdf, i) ==
    IF i > Len(pdf) THEN <<>>
    ELSE <<[page_content |-> pdf[i], page |-> i - 1]>> \o PagesOf(pdf, i + 1)

RECURSIVE AllPages(_)
AllPages(pdf_files) ==
    IF pdf_files = <<>> THEN <<>>
    ELSE PagesOf(Head(pdf_files), 1) \o AllPages(Tail(pdf_files))

\* load_pdfs without its "if not pdf_files" test
LoadPdfsNeverFails(pdf_files) == FALSE

\* load_pdfs: raises ValueError when the directory holds no PDF file
LoadPdfsFails(pdf_files) == pdf_files = <<>>

load_pdfs(p) ==
    /\ pc[p] = "load_pdfs"
    /\ done' = [done EXCEPT ![p] = @ \cup {"load_pdfs"}]
    /\ \/ /\ LoadPdfsFails(corpus)
          /\ err' = [err EXCEPT ![p] = "CorpusEmptyError"]
          /\ pc' = [pc EXCEPT ![p] = "failed"]
          /\ UNCHANGED documents
       \/ /\ ~LoadPdfsFails(corpus)
          /\ documents' = [documents EXCEPT ![p] = AllPages(corpus)]
          /\ pc' = [pc EXCEPT ![p] = "create_vectorstore"]
          /\ UNCHANGED err
       \/ /\ ~LoadPdfsFails(corpus)
          /\ err' = [err EXCEPT ![p] = "UnreadableDocumentError"]
          /\ pc' = [pc EXCEPT ![p] = "failed"]
          /\ UNCHANGED documents
    /\ UNCHANGED <<cvars, qvars, corpus, dirExists, store, lastBuilt, frontEnd, adapter, sawDir, path,
                   splits, vectorstore, qa_chain, asks, lastAsk, pending>>

\* create_vectorstore up to the opening of the store: the documents are split
\* into chunks, then Chroma.from_documents has its client create
\* persist_directory and the collection in it, before any chunk is embedded
create_vectorstore(p) ==
    /\ pc[p] = "create_vectorstore"
    /\ splits' = [splits EXCEPT ![p] = split_documents(documents[p], chunk_size, chunk_overlap)]
    /\ done' = [done EXCEPT ![p] = @ \cup {"split"}]
    /\ dirExists' = TRUE
    /\ pc' = [pc EXCEPT ![p] = "add_texts"]
    /\ UNCHANGED <<cvars, qvars, corpus, store, lastBuilt, frontEnd, adapter, sawDir, path,
                   documents, vectorstore, qa_chain, err, asks, lastAsk, pending>>

\* the records from_documents adds for the chunks: a fresh id each
RECURSIVE NewRecords(_, _, _, _)
NewRecords(p, chunks, a, i) ==
    IF i > Len(chunks) THEN <<>>
    ELSE <<[id |-> <<p, i>>, page_content |-> chunks[i].page_content,
            page |-> chunks[i].page, model |-> a.tag,
            vec |-> embed(a, chunks[i].page_content)]>>
         \o NewRecords(p, chunks, a, i + 1)

\* the collection after from_documents has added the records to the one that
\* is already in persist_directory
AddToCollection(old, new) == old \o new

\* a collection takes vectors of one dimension only
DimensionFits(recs, a) == IF recs = <<>> THEN TRUE ELSE Len(recs[1].vec) = a.dim

\* Chroma.from_documents, adding: the chunks are embedded and the records are
\* written; self.vectorstore is assigned when the call returns
from_documents_add(p) ==
    /\ pc[p] = "add_texts"
    /\ done' = [done EXCEPT ![p] = @ \cup {"embed"}]
    /\ \/ /\ err' = [err EXCEPT ![p] = "EmbeddingError"]
          /\ pc' = [pc EXCEPT ![p] = "failed"]
          /\ UNCHANGED <<store, lastBuilt, vectorstore>>
       \/ /\ ~DimensionFits(store, adapter[p])
          /\ err' = [err EXCEPT ![p] = "InvalidDimensionError"]
          /\ pc' = [pc EXCEPT ![p] = "failed"]
          /\ UNCHANGED <<store, lastBuilt, vectorstore>>
       \/ /\ DimensionFits(store, adapter[p])
          /\ store' = AddToCollection(store, NewRecords(p, splits[p], adapter[p], 1))
          /\ lastBuilt' = splits[p]
          /\ vectorstore' = [vectorstore EXCEPT ![p] = TRUE]
          /\ pc' = [pc EXCEPT ![p] = "setup_qa_chain"]
          /\ UNCHANGED err
    /\ UNCHANGED <<cvars, qvars, corpus, dirExists, frontEnd, adapter, sawDir, path, documents,
                   splits, qa_chain, asks, lastAsk, pending>>

\* what open_client found at the location (kept in done for the record): no
\* directory, or records embedded by another model than the adapter of the run
OpenedOn(exists, recs, a) ==
    (IF exists THEN {} ELSE {"found_nothing"})
        \cup (IF \E i \in DOMAIN recs : recs[i].model # a.tag \/ Len(recs[i].vec) # a.dim
              THEN {"found_other_model"} ELSE {})

\* chromadb.PersistentClient(path) and Chroma(client=..., embedding_function=...):
\* the directory and the collection are created when they are missing, and any
\* collection is taken as it is, whatever model embedded its records
open_client(p) ==
    /\ pc[p] = "open_client"
    /\ done' = [done EXCEPT ![p] = @ \cup {"open_client"} \cup OpenedOn(dirExists, store, adapter[p])]
    /\ dirExists' = TRUE
    /\ vectorstore' = [vectorstore EXCEPT ![p] = TRUE]
    /\ pc' = [pc EXCEPT ![p] = "setup_qa_chain"]
    /\ UNCHANGED <<cvars, qvars, corpus, store, lastBuilt, frontEnd, adapter, sawDir, path, documents,
                   splits, qa_chain, err, asks, lastAsk, pending>>

\* setup_qa_chain: raises ValueError while vectorstore is None
setup_qa_chain(p) ==
    /\ pc[p] = "setup_qa_chain"
    /\ IF vectorstore[p]
       THEN /\ qa_chain' = [qa_chain EXCEPT ![p] = TRUE]
            /\ pc' = [pc EXCEPT ![p] = "ready"]
            /\ UNCHANGED err
       ELSE /\ err' = [err EXCEPT ![p] = "NotInitializedError"]
            /\ pc' = [pc EXCEPT ![p] = "failed"]
            /\ UNCHANGED qa_chain
    /\ done' = [done EXCEPT ![p] = @ \cup {"setup_qa_chain"}]
    /\ UNCHANGED <<cvars, qvars, corpus, dirExists, store, lastBuilt, frontEnd, adapter, sawDir, path,
                   documents, splits, vectorstore, asks, lastAsk, pending>>

RECURSIVE Pick(_, _)
Pick(recs, idx) ==
    IF idx = <<>> THEN <<>> ELSE <<recs[Head(idx)].id>> \o Pick(recs, Tail(idx))

\* a chain that keeps the sources of the latest answer and returns them again
AskOutcomesWithMemory(ready, recs, a, q) ==
    IF ~ready THEN {[status |-> "NotInitializedError", sources |-> <<>>]}
    ELSE IF ~DimensionFits(recs, a)
         THEN {[status |-> "EmbeddingError", sources |-> <<>>],
               [status |-> "InvalidDimensionError", sources |-> <<>>]}
         ELSE {[status |-> "EmbeddingError", sources |-> <<>>],
               [status |-> "GenerationError", sources |-> <<>>],
               [status |-> "answer",
                sources |-> IF lastAsk.status = "answer" THEN lastAsk.sources
                            ELSE Pick(recs, query([i \in DOMAIN recs |-> recs[i].vec],
                                                  embed(a, q)))]}

\* ask_question without its "qa_chain is None" test
AskOutcomesNoGuard(ready, recs, a, q) ==
    {[status |-> "answer",
      sources |-> IF DimensionFits(recs, a)
                  THEN Pick(recs, query([i \in DOMAIN recs |-> recs[i].vec], embed(a, q)))
                  ELSE <<>>]}

\* the outcomes of ask_question: ValueError while qa_chain is None; otherwise
\* the chain embeds the question, retrieves and generates, and any of the
\* three may fail
AskOutcomes(ready, recs, a, q) ==
    IF ~ready THEN {[status |-> "NotInitializedError", sources |-> <<>>]}
    ELSE IF ~DimensionFits(recs, a)
         THEN {[status |-> "EmbeddingError", sources |-> <<>>],
               [status |-> "InvalidDimensionError", sources |-> <<>>]}
         ELSE {[status |-> "EmbeddingError", sources |-> <<>>],
               [status |-> "GenerationError", sources |-> <<>>],
               [status |-> "answer",
                sources |-> Pick(recs, query([i \in DOMAIN recs |-> recs[i].vec],
                                             embed(a, q)))]}

\* rag.ask_question(question), called on an instance that is not inside
\* another call: the "qa_chain is None" test raises at once; otherwise the
\* chain is called with the question and the call is in flight
ask_question(p) ==
    /\ pc[p] \in {"constructed", "failed", "ready"}
    /\ pending[p] = <<>>
    /\ \E q \in Questions :
          IF \A r \in AskOutcomes(qa_chain[p], store, adapter[p], q) :
                 r.status = "NotInitializedError"
          THEN /\ asks' = 1 - asks
               /\ lastAsk' = [by |-> p, ready |-> qa_chain[p],
                              status |-> "NotInitializedError", sources |-> <<>>]
               /\ UNCHANGED pending
          ELSE /\ pending' = [pending EXCEPT ![p] = q]
               /\ UNCHANGED <<asks, lastAsk>>
    /\ UNCHANGED <<cvars, qvars, corpus, dirExists, store, lastBuilt, pc, frontEnd, adapter, sawDir,
                   path, documents, splits, vectorstore, qa_chain, err, done>>

\* result = self.qa_chain({"query": question}); return result: the chain
\* searches the collection as it is when the embedded question arrives, and
\* the call returns the answer with its sources or raises
ask_returns(p) ==
    /\ pending[p] # <<>>
    /\ asks' = 1 - asks
    /\ \E r \in AskOutcomes(qa_chain[p], store, adapter[p], pending[p]) :
          lastAsk' = [by |-> p, ready |-> qa_chain[p],
                      status |-> r.status, sources |-> r.sources]
    /\ pending' = [pending EXCEPT ![p] = <<>>]
    /\ UNCHANGED <<cvars, qvars, corpus, dirExists, store, lastBuilt, pc, frontEnd, adapter, sawDir,
                   path, documents, splits, vectorstore, qa_chain, err, done>>

ChunkIdle ==
    /\ cSize = chunk_size
    /\ cOverlap = chunk_overlap
    /\ cPage = [page_content |-> <<>>, page |-> 0]
    /\ cChunks = <<>>
    /\ cDone = FALSE

QueryIdle ==
    /\ qVecs = <<>>
    /\ qQuery = <<0, 0>>
    /\ qResult = <<>>
    /\ qDone = FALSE

MainIdle == InitMain /\ corpus = <<>>

Init == InitMain /\ ChunkIdle /\ QueryIdle

\* the runs of the front ends, in any interleaving
Next ==
    \E p \in Procs :
        \/ Construct(p)
        \/ Dispatch(p)
        \/ load_pdfs(p)
        \/ create_vectorstore(p)
        \/ from_documents_add(p)
        \/ open_client(p)
        \/ setup_qa_chain(p)

Spec == Init /\ [][Next]_vars

\* one run at a time and one call at a time (the reference workload: the
\* question loop of one terminal), with questions asked of any instance that
\* is not inside a call
Quiescent(p) == pc[p] \in {"ready", "failed"} /\ pending[p] = <<>>

ConstructInTurn(p) ==
    /\ \A r \in Procs : r < p => Quiescent(r)
    /\ Construct(p)

AskInTurn(p) ==
    /\ \A r \in Procs : pending[r] = <<>>
    /\ \A r \in Procs \ {p} : pc[r] \in {"new", "ready", "failed"}
    /\ ask_question(p)

NextAsk ==
    \E p \in Procs :
        \/ ConstructInTurn(p)
        \/ Dispatch(p)
        \/ load_pdfs(p)
        \/ create_vectorstore(p)
        \/ from_documents_add(p)
        \/ open_client(p)
        \/ setup_qa_chain(p)
        \/ AskInTurn(p)
        \/ ask_returns(p)

SpecAsk == Init /\ [][NextAsk]_vars

\* the sessions of the web application: each session has its own instance,
\* initialized by initialize_rag_system at its first question, one session at
\* a time here; the questions of the sessions whose instance is READY come in
\* any interleaving
SessionInTurn(p) ==
    /\ ConstructInTurn(p)
    /\ frontEnd'[p] = "app"

AskReady(p) ==
    /\ pc[p] = "ready"
    /\ ask_question(p)

NextReady ==
    \E p \in Procs :
        \/ SessionInTurn(p)
        \/ Dispatch(p)
        \/ load_pdfs(p)
        \/ create_vectorstore(p)
        \/ from_documents_add(p)
        \/ open_client(p)
        \/ setup_qa_chain(p)
        \/ AskReady(p)
        \/ ask_returns(p)

SpecReady == Init /\ [][NextReady]_vars

(***************************************************************************)
(* The chunker on its own: one page of arbitrary text, with its page       *)
(* index, under an arbitrary valid configuration.                          *)
(***************************************************************************)
MaxChunkSize == 4    \* largest chunk_size drawn besides the reference one
MaxPages == 2        \* page indexes drawn for the page given to the chunker

Texts == UNION {[1..n -> Chars] : n \in 0..MaxLen}

Configs ==
    {c \in (1..MaxChunkSize) \X (1..MaxChunkSize) : c[2] < c[1]}
        \cup {<<chunk_size, chunk_overlap>>}

InitChunk ==
    /\ MainIdle
    /\ QueryIdle
    /\ \E c \in Configs : cSize = c[1] /\ cOverlap = c[2]
    /\ \E t \in Texts, n \in 0..(MaxPages - 1) : cPage = [page_content |-> t, page |-> n]
    /\ cChunks = <<>>
    /\ cDone = FALSE

\* text_splitter.split_documents(documents) on the page
SplitPage ==
    /\ ~cDone
    /\ cChunks' = split_documents(<<cPage>>, cSize, cOverlap)
    /\ cDone' = TRUE
    /\ UNCHANGED <<cSize, cOverlap, cPage, mvars, qvars>>

NextChunk == SplitPage

SpecChunk == InitChunk /\ [][NextChunk]_vars

(***************************************************************************)
(* The similarity search on its own: any index of up to MaxRecords         *)
(* vectors, any query vector.                                              *)
(***************************************************************************)
MaxRecords == 5      \* records in the index given to the search

Vectors == { <<0, 0>>, <<1, 0>>, <<0, 1>>, <<1, 1>> }

InitQuery ==
    /\ MainIdle
    /\ ChunkIdle
    /\ qVecs \in UNION {[1..n -> Vectors] : n \in 0..MaxRecords}
    /\ qQuery \in Vectors
    /\ qResult = <<>>
    /\ qDone = FALSE

\* the retriever's search for a query vector
Retrieve ==
    /\ ~qDone
    /\ qResult' = query(qVecs, qQuery)
    /\ qDone' = TRUE
    /\ UNCHANGED <<qVecs, qQuery, mvars, cvars>>

NextQuery == Retrieve

SpecQuery == InitQuery /\ [][NextQuery]_vars

(***************************************************************************)
(* Properties.                                                             *)
(***************************************************************************)
\* a build or a load of run p has completed: the store is open, the chain is set up
Completed(p) ==
    /\ vectorstore[p]
    /\ "setup_qa_chain" \in done[p]
    /\ err[p] = "none"

\* C1: a call of ask_question on an instance whose qa_chain is not set up (never
\* initialized, or after an initialization that failed at any step) raises the
\* not-initialized error and returns nothing; a call returns an answer only
\* when a build or a load of that instance has completed
C1_AskBeforeReady ==
    [][asks' # asks =>
          LET p == lastAsk'.by
          IN  /\ ~qa_chain[p] =>
                    /\ lastAsk'.status = "NotInitializedError"
                    /\ lastAsk'.sources = <<>>
              /\ pc[p] # "ready" => lastAsk'.status = "NotInitializedError"
              /\ lastAsk'.status = "answer" => pc[p] = "ready" /\ Completed(p)]_vars

\* an instance whose initialization failed has been asked and has refused
C1_Witness ==
    /\ lastAsk.status = "NotInitializedError"
    /\ lastAsk.by # 0
    /\ pc[lastAsk.by] = "failed"

\* C3: with no PDF file in the directory, load_pdfs fails with the corpus-empty
\* error before anything is split, embedded or written, the instance never gets
\* ready, and a later ask_question on it fails as not initialized
C3_CorpusEmpty ==
    [][\A p \in Procs :
          /\ (pc[p] = "load_pdfs" /\ pc'[p] # "load_pdfs" /\ corpus = <<>>) =>
                /\ pc'[p] = "failed"
                /\ err'[p] = "CorpusEmptyError"
                /\ done'[p] \cap {"split", "embed"} = {}
                /\ store' = store /\ dirExists' = dirExists
          /\ err[p] = "CorpusEmptyError" =>
                /\ pc'[p] = "failed"
                /\ ~qa_chain'[p]
                /\ done'[p] = done[p]
                /\ (asks' # asks /\ lastAsk'.by = p) =>
                        lastAsk'.status = "NotInitializedError"]_vars

\* initialization has failed on the empty corpus and the instance, asked, refuses
C3_Witness ==
    /\ corpus = <<>>
    /\ lastAsk.by # 0
    /\ err[lastAsk.by] = "CorpusEmptyError"
    /\ lastAsk.status = "NotInitializedError"

\* the steps of a build: extractor, chunker, index build
BuildSteps == {"load_pdfs", "split", "embed"}

\* some build into the location has completed
BuildCompleted == \E p \in Procs : path[p] = "BUILDING" /\ vectorstore[p]

\* C2 as claimed: an initialization that starts when a snapshot with records is
\* at the location loads it; it builds only when there is none
C2_LoadWhenSnapshot ==
    \A p \in Procs :
        (path[p] # "none" /\ "records_present" \in done[p]) => path[p] = "LOADING"

\* C2, amended: the applications load when the directory exists and build when
\* it does not; "init" always builds and "query" always loads; a load does no
\* extraction, chunking or embedding of the corpus; a build runs extractor,
\* chunker and index build in this order; a run without error ends ready
C2_PathByFrontEnd ==
    \A p \in Procs :
        /\ path[p] # "none" =>
              /\ frontEnd[p] = "app" => (path[p] = "LOADING" <=> sawDir[p])
              /\ frontEnd[p] = "init" => path[p] = "BUILDING"
              /\ frontEnd[p] = "query" => path[p] = "LOADING"
        /\ path[p] = "LOADING" => done[p] \cap BuildSteps = {}
        /\ path[p] = "BUILDING" =>
              /\ "open_client" \notin done[p]
              /\ "embed" \in done[p] => "split" \in done[p]
              /\ "split" \in done[p] => "load_pdfs" \in done[p]
        /\ pc[p] = "ready" =>
              /\ Completed(p) /\ qa_chain[p]
              /\ path[p] = "BUILDING" => BuildSteps \subseteq done[p]
              /\ path[p] = "LOADING" => "open_client" \in done[p]
        /\ (err[p] = "none" /\ "setup_qa_chain" \in done[p]) => pc[p] = "ready"

\* an application has found the directory, loaded and got ready, and another
\* run has built and got ready
C2_Witness ==
    /\ \E p \in Procs :
          frontEnd[p] = "app" /\ sawDir[p] /\ path[p] = "LOADING" /\ pc[p] = "ready"
    /\ \E p \in Procs : path[p] = "BUILDING" /\ pc[p] = "ready"

\* C4: a build is all-or-nothing: when a build has failed, and no build has
\* completed and nothing was opened for loading, nothing is left at the location
\* for a later initialization to find and load
C4_AllOrNothing ==
    ( /\ \E p \in Procs : path[p] = "BUILDING" /\ pc[p] = "failed"
      /\ \A p \in Procs : path[p] \in {"none", "BUILDING"} /\ (path[p] = "BUILDING" => pc[p] = "failed")
      /\ ~BuildCompleted )
    => ~dirExists

\* the texts and page indexes of a sequence of chunks or records
Contents(xs) == [i \in DOMAIN xs |-> <<xs[i].page_content, xs[i].page>>]

\* C5: a build overwrites: after any completed builds the store holds exactly
\* the records of the chunks of the most recent one
C5_BuildOverwrites ==
    lastBuilt # <<>> => Contents(store) = Contents(lastBuilt)

\* C6: opening a location where nothing exists fails with the
\* snapshot-not-found error, creates nothing and does not get the instance ready
C6_LoadMissingFails ==
    \A p \in Procs :
        "found_nothing" \in done[p] =>
            /\ pc[p] = "failed"
            /\ err[p] = "SnapshotNotFoundError"
            /\ ~qa_chain[p]
            /\ (~BuildCompleted => ~dirExists)

\* C7: opening a store whose records were embedded by a model of another tag or
\* dimension than the adapter of the run is rejected as corrupt
C7_MismatchRejected ==
    \A p \in Procs :
        "found_other_model" \in done[p] =>
            /\ pc[p] = "failed"
            /\ err[p] = "SnapshotCorruptError"
            /\ ~qa_chain[p]

\* a build or a load of run p is in progress
Initializing(p) ==
    pc[p] \in {"load_pdfs", "create_vectorstore", "add_texts", "open_client", "setup_qa_chain"}

\* C8: the initializations of concurrent sessions of the application are
\* serialized: at most one build or load is in progress at a time
C8_Serialized ==
    Cardinality({p \in Procs : frontEnd[p] = "app" /\ Initializing(p)}) <= 1

\* the similarity of the record at position i of the index to the query
Score(i) == Similarity(qVecs[i], qQuery)

Min(a, b) == IF a < b THEN a ELSE b

RECURSIVE Joined(_)
Joined(chunks) ==
    IF chunks = <<>> THEN {<<>>}
    ELSE IF Len(chunks) = 1 THEN {chunks[1]}
    ELSE LET last == chunks[Len(chunks)]
         IN  UNION { { m \o SubSeq(last, o + 1, Len(last)) :
                         o \in {n \in 0..Min(Len(m), Len(last)) :
                                  SubSeq(m, Len(m) - n + 1, Len(m)) = SubSeq(last, 1, n)} } :
                     m \in Joined(SubSeq(chunks, 1, Len(chunks) - 1)) }

ChunkTexts == [i \in DOMAIN cChunks |-> cChunks[i].page_content]

\* C10 as claimed: every chunk is at most chunk_size long and carries the page
\* it was cut from, the chunks joined with the overlaps removed give the page
\* text back, an empty page gives no chunk and a page of at most chunk_size
\* characters gives exactly one
C10_Reconstructs ==
    cDone =>
        /\ \A i \in DOMAIN cChunks :
              /\ Len(cChunks[i].page_content) <= cSize
              /\ cChunks[i].page = cPage.page
        /\ cPage.page_content \in Joined(ChunkTexts)
        /\ cPage.page_content = <<>> => cChunks = <<>>
        /\ (cPage.page_content # <<>> /\ Len(cPage.page_content) <= cSize) =>
              Len(cChunks) = 1

\* the chunks, in order, are slices of text t that begin at or after position
\* from, none beginning before the one before it, and together they leave
\* nothing but whitespace of t after position covered uncovered
RECURSIVE Covers(_, _, _, _)
Covers(chunks, t, from, covered) ==
    IF chunks = <<>>
    THEN \A i \in (covered + 1)..Len(t) : t[i] \in Whitespace
    ELSE LET c == Head(chunks)
         IN  \E s \in from..(Len(t) - Len(c) + 1) :
                 /\ SubSeq(t, s, s + Len(c) - 1) = c
                 /\ \A i \in (covered + 1)..(s - 1) : t[i] \in Whitespace
                 /\ Covers(Tail(chunks), t, s,
                           IF s + Len(c) - 1 > covered THEN s + Len(c) - 1 ELSE covered)

\* C10, amended: every chunk is at most chunk_size long, carries the page it
\* was cut from, is a non-empty slice of the page text that neither begins nor
\* ends with whitespace; the chunks in order cover the page text except for
\* whitespace dropped at chunk boundaries; an empty or all-whitespace page
\* gives no chunk and any other page of at most chunk_size characters gives
\* exactly one chunk, the stripped page text
C10_ChunksCoverPage ==
    cDone =>
        /\ \A i \in DOMAIN cChunks :
              /\ Len(cChunks[i].page_content) <= cSize
              /\ cChunks[i].page = cPage.page
              /\ cChunks[i].page_content # <<>>
              /\ Strip(cChunks[i].page_content) = cChunks[i].page_content
        /\ Covers(ChunkTexts, cPage.page_content, 1, 0)
        /\ Strip(cPage.page_content) = <<>> => cChunks = <<>>
        /\ (Strip(cPage.page_content) # <<>> /\ Len(cPage.page_content) <= cSize) =>
              ChunkTexts = <<Strip(cPage.page_content)>>

\* a page longer than chunk_size, with whitespace in it, cut into several chunks
C10_Witness ==
    /\ cDone
    /\ Len(cPage.page_content) > cSize
    /\ Len(cChunks) >= 2
    /\ \E i \in DOMAIN cPage.page_content : cPage.page_content[i] \in Whitespace
    /\ \E i \in DOMAIN cChunks : Len(cChunks[i].page_content) = cSize

\* the sources an answer to question q holds when the collection holds recs
\* and the instance embeds with a: a function of these three alone
SourcesFor(recs, a, q) ==
    Pick(recs, query([i \in DOMAIN recs |-> recs[i].vec], embed(a, q)))

\* C11: every step of an ask call on a READY instance, the call entering the
\* chain or the call returning or raising, in any interleaving with the ask
\* calls of other instances, leaves the records of the collection, the
\* persisted directory and the state of every instance as they were; the
\* instance stays READY; the calls in flight on other instances are untouched;
\* and what the call returns is an error without sources or the answer whose
\* sources are decided by its own question and the collection as it is
C11_AskLeavesStateUnchanged ==
    [][\A p \in Procs :
          (/\ pc[p] = "ready"
           /\ \/ pending'[p] # pending[p]
              \/ (asks' # asks /\ lastAsk'.by = p)) =>
              /\ store' = store
              /\ lastBuilt' = lastBuilt
              /\ dirExists' = dirExists
              /\ corpus' = corpus
              /\ <<pc, frontEnd, adapter, sawDir, path, documents, splits,
                   vectorstore, qa_chain, err, done>>'
                     = <<pc, frontEnd, adapter, sawDir, path, documents, splits,
                         vectorstore, qa_chain, err, done>>
              /\ pc'[p] = "ready" /\ qa_chain'[p]
              /\ \A r \in Procs \ {p} : pending'[r] = pending[r]
              /\ asks' = asks =>
                    /\ pending[p] = <<>>
                    /\ pending'[p] \in Questions
                    /\ lastAsk' = lastAsk
              /\ asks' # asks =>
                    /\ pending[p] \in Questions
                    /\ pending'[p] = <<>>
                    /\ lastAsk'.by = p
                    /\ lastAsk'.status \in {"answer", "EmbeddingError",
                                            "InvalidDimensionError", "GenerationError"}
                    /\ lastAsk'.status = "answer" =>
                          /\ lastAsk'.sources = SourcesFor(store, adapter[p], pending[p])
                          /\ Len(lastAsk'.sources) = Min(RetrieverK, Len(store))
                          /\ \A i \in DOMAIN lastAsk'.sources :
                                \E j \in DOMAIN store : store[j].id = lastAsk'.sources[i]
                    /\ lastAsk'.status # "answer" => lastAsk'.sources = <<>>]_vars

\* an ask of a READY instance has returned an answer with sources while the
\* ask of another READY instance is in flight, the
\* collection holding records
C11_Witness ==
    /\ lastAsk.status = "answer"
    /\ lastAsk.sources # <<>>
    /\ lastAsk.by # 0
    /\ pc[lastAsk.by] = "ready"
    /\ store # <<>>
    /\ \E r \in Procs \ {lastAsk.by} :
          /\ pc[r] = "ready"
          /\ pending[r] \in Questions

====
